---- MODULE Spec2Model ----
(***************************************************************************)
(* Model of src/calendar.js: the Calendar / Event classes and layOutDay.   *)
(*                                                                         *)
(* An Event object is identified by its position in the array handed to    *)
(* the Calendar constructor (1..Len(input)); ev[id] holds its fields.      *)
(* Arrays of Event references (this.events, the column lists, the          *)
(* collision clusters, event.collisions) are sequences of ids, so the      *)
(* identity comparisons of $.inArray are comparisons of ids.               *)
(* JavaScript indices are kept 0-based where the code computes with them   *)
(* (cluster indices, the loop index i); element k of a JavaScript array    *)
(* is element k+1 of the sequence.                                         *)
(* Widths and lefts are exact rationals [n |-> numerator, d |-> divisor].  *)
(* Array.prototype.sort is modelled as the stable sort of ECMAScript 2019. *)
(***************************************************************************)
EXTENDS Integers, Sequences, FiniteSets, TLC

VARIABLES pc, input, ev, events, events_calculated, collision_clusters,
          column, i, new_collision_cluster_index, fault

vars == <<pc, input, ev, events, events_calculated, collision_clusters,
          column, i, new_collision_cluster_index, fault>>

(* ------------------------------ bounds --------------------------------- *)
MaxTime == 3
MaxEvents == 3
MaxEventsSorted == 9
MaxEventsRaw == 3
MaxTimeRaw == 2

(* ----------------------------- constants ------------------------------- *)
CalendarWidth == 600
undefined == -1

(* records {start, end} with start < end over the time axis 0..MaxTime *)
Records == { r \in [start : 0..MaxTime, end : 0..MaxTime] : r.start < r.end }

(* the records of the long runs: one-unit slots of a four-unit day and two
   longer events *)
DayRecords == { [start |-> 0, end |-> 1], [start |-> 0, end |-> 3],
                [start |-> 1, end |-> 2], [start |-> 2, end |-> 3],
                [start |-> 2, end |-> 4], [start |-> 3, end |-> 4] }

(* every record over 0..MaxTimeRaw, start >= end included *)
RawRecords == [start : 0..MaxTimeRaw, end : 0..MaxTimeRaw]

(* ------------------------- exact rational numbers ---------------------- *)
Rat(n, d) == [n |-> n, d |-> d]
RatLeq(a, b) == a.n * b.d <= b.n * a.d
RatEq(a, b) == a.n * b.d = b.n * a.d
RatAdd(a, b) == [n |-> a.n * b.d + b.n * a.d, d |-> a.d * b.d]
RatDiv(a, k) == [n |-> a.n, d |-> a.d * k]
RatMul(a, k) == [n |-> a.n * k, d |-> a.d]

(* ------------------------------ arrays --------------------------------- *)
(* $.inArray(element, array): 0-based index of the first occurrence, -1 if none *)
inArray(element, array) ==
    IF \E k \in 1..Len(array) : array[k] = element
    THEN (CHOOSE k \in 1..Len(array) :
             /\ array[k] = element
             /\ \A m \in 1..(k-1) : array[m] # element) - 1
    ELSE -1

RECURSIVE grep(_, _, _)
(* the elements of array at the positions k..Len(array) that keep(position) accepts *)
grep(array, keep, k) ==
    IF k > Len(array) THEN <<>>
    ELSE IF k \in keep THEN <<array[k]>> \o grep(array, keep, k + 1)
         ELSE grep(array, keep, k + 1)

removeDuplicates(array) ==
    grep(array, { k \in 1..Len(array) : inArray(array[k], array) = k - 1 }, 1)

(* a splice that removes nothing *)
spliceNone(array, index) == array

(* array.splice(index, 1): drops the element at the 0-based index, if any *)
spliceOne(array, index) ==
    IF index >= 0 /\ index < Len(array)
    THEN SubSeq(array, 1, index) \o SubSeq(array, index + 2, Len(array))
    ELSE array

(* ------------------------------- Event --------------------------------- *)
(* a constructor that puts reversed endpoints in order *)
EventNormalised(rec) ==
    [ start      |-> IF rec.start <= rec.end THEN rec.start ELSE rec.end,
      end        |-> IF rec.start <= rec.end THEN rec.end ELSE rec.start,
      left       |-> Rat(0, 1),
      width      |-> Rat(CalendarWidth, 1),
      collisions |-> <<>>,
      column     |-> 1 ]

(* new Event(event, calendar) *)
Event(rec) ==
    [ start      |-> rec.start,
      end        |-> rec.end,
      left       |-> Rat(0, 1),
      width      |-> Rat(CalendarWidth, 1),
      collisions |-> <<>>,
      column     |-> 1 ]

(* a collision test that also takes touching intervals as colliding *)
checkCollisionTouching(a, b) ==
    \/ (a.start <= b.start /\ b.start <= a.end)
    \/ (a.start < b.end /\ b.end <= a.end)
    \/ (b.start <= a.start /\ a.start < b.end)
    \/ (b.start < a.end /\ a.end <= b.end)

(* a collision test over closed intervals: touching ends collide both ways *)
checkCollisionClosed(a, b) == a.start <= b.end /\ b.start <= a.end

(* a.checkCollision(b), a and b anything with start and end *)
checkCollision(a, b) ==
    \/ (a.start <= b.start /\ b.start < a.end)
    \/ (a.start < b.end /\ b.end <= a.end)
    \/ (b.start <= a.start /\ a.start < b.end)
    \/ (b.start < a.end /\ a.end <= b.end)

(* a resize that computes left from column instead of column - 1 *)
resizeShifted(e, col) ==
    LET w == RatDiv(Rat(CalendarWidth, 1), col)
    IN  [e EXCEPT !.width = w, !.left = RatMul(w, e.column)]

(* a resize that also moves the event to the triggering column *)
resizeMoves(e, col) ==
    LET w == RatDiv(Rat(CalendarWidth, 1), col)
    IN  [e EXCEPT !.width = w, !.left = RatMul(w, col - 1), !.column = col]

(* e.resize(col): e the fields of one event *)
resize(e, col) ==
    LET w == RatDiv(Rat(CalendarWidth, 1), col)
    IN  [e EXCEPT !.width = w, !.left = RatMul(w, e.column - 1)]

(* ------------------------------ Calendar ------------------------------- *)
(* a comparator that forgets the tie-break on end *)
sortCompareStartOnly(a, b) ==
    IF a.start > b.start THEN 1
    ELSE IF b.start > a.start THEN -1
    ELSE 0

(* the comparator handed to this.events.sort *)
sortCompare(a, b) ==
    IF a.start > b.start THEN 1
    ELSE IF b.start > a.start THEN -1
    ELSE IF a.end > b.end THEN 1
    ELSE IF b.end > a.end THEN -1
    ELSE 0

(* stable insertion of id x into the sorted sequence of ids s *)
sortInsert(evs, s, x) ==
    LET after == { k \in 1..Len(s) : sortCompare(evs[s[k]], evs[x]) <= 0 }
        p == IF after = {} THEN 0
             ELSE CHOOSE k \in after : \A m \in after : m <= k
    IN  SubSeq(s, 1, p) \o <<x>> \o SubSeq(s, p + 1, Len(s))

RECURSIVE sortFrom(_, _, _, _)
sortFrom(evs, s, done, k) ==
    IF k > Len(s) THEN done
    ELSE sortFrom(evs, s, sortInsert(evs, done, s[k]), k + 1)

(* this.events.sort(comparator) *)
sort(evs, s) == sortFrom(evs, s, <<>>, 1)

(* a query that looks at the first event of the column only *)
getCollidingEventsFirstOnly(evs, calc, event, col) ==
    IF Len(calc[col]) = 0 THEN <<>>
    ELSE SelectSeq(<<calc[col][1]>>,
                   LAMBDA x : checkCollision(evs[event], evs[x]))

(* a query that reports every event of the column as colliding *)
getCollidingEventsWholeColumn(evs, calc, event, col) == calc[col]

(* this.getCollidingEvents(event, col), for a column whose list exists *)
getCollidingEvents(evs, calc, event, col) ==
    SelectSeq(calc[col], LAMBDA x : checkCollision(evs[event], evs[x]))

RECURSIVE collidingFromSkipFirst(_, _, _, _, _)
(* a loop that stops before column 1 *)
collidingFromSkipFirst(evs, calc, event, acc, j) ==
    IF j <= 1 THEN acc
    ELSE collidingFromSkipFirst(evs, calc, event,
                                acc \o getCollidingEvents(evs, calc, event, j), j - 1)

RECURSIVE collidingFrom(_, _, _, _, _)
(* the loop of determineCollidingEvents, from column j down to column 1 *)
collidingFrom(evs, calc, event, acc, j) ==
    IF j <= 0 THEN acc
    ELSE collidingFrom(evs, calc, event,
                       acc \o getCollidingEvents(evs, calc, event, j), j - 1)

(* event.determineCollidingEvents(): the new value of event.collisions *)
determineCollidingEvents(evs, calc, event) ==
    removeDuplicates(collidingFrom(evs, calc, event, evs[event].collisions,
                                   evs[event].column - 1))

(* the 0-based indices of the clusters that hold collision_event, ascending *)
clustersHolding(clusters, collision_event) ==
    grep([k \in 1..Len(clusters) |-> k - 1],
         { k \in 1..Len(clusters) : inArray(collision_event, clusters[k]) > -1 }, 1)

RECURSIVE clustersToMerge(_, _, _)
(* collision_clusters_to_merge as the two nested forEach loops fill it *)
clustersToMerge(clusters, collisions, k) ==
    IF k > Len(collisions) THEN <<>>
    ELSE clustersHolding(clusters, collisions[k])
         \o clustersToMerge(clusters, collisions, k + 1)

RECURSIVE mergeInto(_, _, _, _)
(* the concat loop, k = 1 .. length-1 over the 0-based array to_merge *)
mergeInto(clusters, to_merge, first, k) ==
    IF k >= Len(to_merge) THEN clusters
    ELSE mergeInto([clusters EXCEPT ![first + 1] =
                        @ \o clusters[to_merge[k + 1] + 1]],
                   to_merge, first, k + 1)

RECURSIVE removeMerged(_, _, _)
(* the splice loop, k = length-1 down to 1 over the 0-based array to_merge *)
removeMerged(clusters, to_merge, k) ==
    IF k <= 0 THEN clusters
    ELSE removeMerged(spliceOne(clusters, to_merge[k + 1]), to_merge, k - 1)

(* this.determineCollisionClusters(event), up to the push of line 83:
   the cluster array after the splices and the index to be returned *)
determineCollisionClusters(clusters, collisions, event) ==
    IF Len(collisions) = 0
    THEN [clusters |-> Append(clusters, <<event>>), index |-> Len(clusters),
          thrown |-> FALSE]
    ELSE LET to_merge == removeDuplicates(clustersToMerge(clusters, collisions, 1))
             first == IF Len(to_merge) = 0 THEN undefined ELSE to_merge[1]
             merged == IF first = undefined THEN clusters
                       ELSE mergeInto(clusters, to_merge, first, 1)
             spliced == removeMerged(merged, to_merge, Len(to_merge) - 1)
         IN  IF first = undefined \/ first >= Len(spliced)
             THEN [clusters |-> spliced, index |-> first, thrown |-> TRUE]
             ELSE [clusters |-> [spliced EXCEPT ![first + 1] = Append(@, event)],
                   index |-> first, thrown |-> FALSE]

(* the forEach of lines 116-118: every member of the cluster is resized *)
resizeCluster(evs, cluster, col) ==
    [k \in DOMAIN evs |->
        IF inArray(k, cluster) > -1 THEN resize(evs[k], col) ELSE evs[k]]

RECURSIVE columnPass(_, _, _, _)
(* the for loop of lines 100-120 as far as the column lists go: from the
   0-based index k on, the list of the column and the events left over *)
columnPass(evs, remaining, list, k) ==
    IF k >= Len(remaining) THEN [list |-> list, rest |-> remaining]
    ELSE IF Len(getCollidingEvents(evs, <<list>>, remaining[k + 1], 1)) = 0
         THEN columnPass(evs, spliceOne(remaining, k),
                         Append(list, remaining[k + 1]), k)
         ELSE columnPass(evs, remaining, list, k + 1)

RECURSIVE columnsUsed(_, _, _)
(* the while loop of lines 97-122: the number of columns created for the
   unplaced events after n columns *)
columnsUsed(evs, remaining, n) ==
    IF Len(remaining) > 0
    THEN columnsUsed(evs, columnPass(evs, remaining, <<>>, 0).rest, n + 1)
    ELSE n

(* ------------------------------ the run -------------------------------- *)
TypeOK ==
    /\ pc \in {"new", "constructed", "sorted", "while", "for", "done", "error"}
    /\ fault \in {"none", "no_column", "no_cluster"}
    /\ column \in Nat
    /\ i \in Nat
    /\ new_collision_cluster_index \in Nat \cup {undefined}

Init ==
    /\ pc = "new"
    /\ input = <<>>
    /\ ev = <<>>
    /\ events = <<>>
    /\ events_calculated = <<>>
    /\ collision_clusters = <<>>
    /\ column = 0
    /\ i = 0
    /\ new_collision_cluster_index = undefined
    /\ fault = "none"

(* one turn of the constructor's forEach: this.events.push(new Event(event, this)) *)
PushEvent(rec) ==
    /\ pc = "new"
    /\ input' = Append(input, rec)
    /\ ev' = Append(ev, Event(rec))
    /\ events' = Append(events, Len(input) + 1)
    /\ UNCHANGED <<pc, events_calculated, collision_clusters, column, i,
                    new_collision_cluster_index, fault>>

(* the caller's array holds any valid records in any order *)
ConstructEvent ==
    /\ Len(input) < MaxEvents
    /\ \E rec \in Records : PushEvent(rec)

(* the caller's array holds day records in ascending (start, end) order *)
ConstructDayEvent ==
    /\ Len(input) < MaxEventsSorted
    /\ \E rec \in DayRecords :
          /\ IF input = <<>> THEN TRUE
             ELSE sortCompare(input[Len(input)], rec) <= 0
          /\ PushEvent(rec)

(* the caller's array holds any records, malformed ones included *)
ConstructRawEvent ==
    /\ Len(input) < MaxEventsRaw
    /\ \E rec \in RawRecords : PushEvent(rec)

(* the end of the constructor *)
Calendar ==
    /\ pc = "new"
    /\ pc' = "constructed"
    /\ events_calculated' = <<>>
    /\ collision_clusters' = <<>>
    /\ UNCHANGED <<input, ev, events, column, i, new_collision_cluster_index, fault>>

sortEvents ==
    /\ pc = "constructed"
    /\ pc' = "sorted"
    /\ events' = sort(ev, events)
    /\ UNCHANGED <<input, ev, events_calculated, collision_clusters, column, i,
                    new_collision_cluster_index, fault>>

(* entry of calculateEventPositions: var column = 1 *)
calculateEventPositions ==
    /\ pc = "sorted"
    /\ pc' = "while"
    /\ column' = 1
    /\ UNCHANGED <<input, ev, events, events_calculated, collision_clusters, i,
                    new_collision_cluster_index, fault>>

(* a loop condition that lets the body run once more on an empty list *)
whileConditionLoose(unplaced) == Len(unplaced) >= 0

(* the condition of the while loop *)
whileCondition(unplaced) == Len(unplaced) > 0

(* this.events_calculated[column-1] = [] *)
newColumn(calc, col) ==
    IF col <= Len(calc) THEN [calc EXCEPT ![col] = <<>>]
    ELSE Append(calc, <<>>)

(* the while test: a new column pass, or the return of calculateEventPositions *)
WhileTest ==
    /\ pc = "while"
    /\ IF whileCondition(events)
       THEN /\ events_calculated' = newColumn(events_calculated, column)
            /\ i' = 0
            /\ pc' = "for"
       ELSE /\ pc' = "done"
            /\ UNCHANGED <<events_calculated, i>>
    /\ UNCHANGED <<input, ev, events, collision_clusters, column,
                    new_collision_cluster_index, fault>>

(* the for test fails: column++ *)
NextColumn ==
    /\ pc = "for"
    /\ i >= Len(events)
    /\ column' = column + 1
    /\ pc' = "while"
    /\ UNCHANGED <<input, ev, events, events_calculated, collision_clusters, i,
                    new_collision_cluster_index, fault>>

(* one turn of the for loop whose event collides in the current column
   (or whose column list is missing: TypeError at line 41) *)
SkipEvent ==
    /\ pc = "for"
    /\ i < Len(events)
    /\ IF column > Len(events_calculated)
       THEN /\ pc' = "error"
            /\ fault' = "no_column"
            /\ UNCHANGED i
       ELSE /\ Len(getCollidingEvents(ev, events_calculated, events[i + 1], column)) # 0
            /\ i' = i + 1
            /\ UNCHANGED <<pc, fault>>
    /\ UNCHANGED <<input, ev, events, events_calculated, collision_clusters, column,
                    new_collision_cluster_index>>

(* one turn of the for loop that places its event: lines 104-118 *)
PlaceEvent ==
    /\ pc = "for"
    /\ i < Len(events)
    /\ column <= Len(events_calculated)
    /\ LET event == events[i + 1]
       IN  /\ Len(getCollidingEvents(ev, events_calculated, event, column)) = 0
           /\ LET calc1 == [events_calculated EXCEPT ![column] = Append(@, event)]
                  ev1 == [ev EXCEPT ![event].column = column]
                  ev2 == [ev1 EXCEPT ![event].collisions =
                                determineCollidingEvents(ev1, calc1, event)]
                  r == determineCollisionClusters(collision_clusters,
                                                  ev2[event].collisions, event)
              IN  /\ events_calculated' = calc1
                  /\ events' = spliceOne(events, i)
                  /\ collision_clusters' = r.clusters
                  /\ IF r.thrown
                     THEN /\ ev' = ev2
                          /\ pc' = "error"
                          /\ fault' = "no_cluster"
                          /\ UNCHANGED new_collision_cluster_index
                     ELSE /\ new_collision_cluster_index' = r.index
                          /\ ev' = resizeCluster(ev2, r.clusters[r.index + 1], column)
                          /\ UNCHANGED <<pc, fault>>
    /\ UNCHANGED <<input, column, i>>

Layout == \/ Calendar \/ sortEvents \/ calculateEventPositions
          \/ WhileTest \/ NextColumn \/ SkipEvent \/ PlaceEvent

(* layOutDay on any array of valid records *)
Next == ConstructEvent \/ Layout
Spec == Init /\ [][Next]_vars

(* layOutDay on an ascending array of day records *)
NextSorted == ConstructDayEvent \/ Layout
SpecSorted == Init /\ [][NextSorted]_vars

(* layOutDay on any array of records, malformed ones included *)
NextRaw == ConstructRawEvent \/ Layout
SpecRaw == Init /\ [][NextRaw]_vars

(* ============================== properties ============================= *)
ids == DOMAIN ev
Zero == Rat(0, 1)
Full == Rat(CalendarWidth, 1)
right(k) == RatAdd(ev[k].left, ev[k].width)
count(array, x) == Cardinality({ p \in 1..Len(array) : array[p] = x })
placed == { k \in ids : \E c \in 1..Len(events_calculated) :
                           inArray(k, events_calculated[c]) > -1 }
unplaced == { k \in ids : inArray(k, events) > -1 }
malformed == { k \in 1..Len(input) : input[k].start >= input[k].end }

RECURSIVE sum(_, _)
(* f[1] + ... + f[n] *)
sum(f, n) == IF n = 0 THEN 0 ELSE f[n] + sum(f, n - 1)

RECURSIVE reach(_, _)
(* the events of the set among linked to S by a chain of pairwise collisions *)
reach(S, among) ==
    LET T == S \cup { b \in among : \E a \in S : checkCollision(ev[a], ev[b]) }
    IN  IF T = S THEN S ELSE reach(T, among)

component(e, among) == reach({e}, among)
maxColumn(S) == CHOOSE m \in { ev[k].column : k \in S } :
                    \A k \in S : ev[k].column <= m

(* C1: when the layout of a sorted valid input has finished, any two
   distinct events that collide in time occupy horizontal ranges
   [left, left + width) that do not overlap. *)
C1_NoOverlapAmongCollisions ==
    pc = "done" =>
        \A a, b \in ids :
            (a # b /\ checkCollision(ev[a], ev[b])) =>
                (RatLeq(right(a), ev[b].left) \/ RatLeq(right(b), ev[a].left))

(* C2: in every state of a run every event, placed or not, has
   0 <= left and left + width <= 600. *)
C2_Containment ==
    \A k \in ids : RatLeq(Zero, ev[k].left) /\ RatLeq(right(k), Full)

(* an event has been moved off the left edge while others are still unplaced *)
C2_Witness ==
    /\ pc = "for"
    /\ events # <<>>
    /\ \E k \in placed : ev[k].left.n > 0 /\ RatEq(right(k), Full)

(* C3: when the layout of a sorted valid input has finished, every event e
   has width = 600 / M and left = width * (column - 1), M the largest
   column in e's connected component of the collision graph. *)
C3_WidthByComponent ==
    pc = "done" =>
        \A e \in ids :
            LET w == RatDiv(Full, maxColumn(component(e, ids)))
            IN  /\ RatEq(ev[e].width, w)
                /\ RatEq(ev[e].left, RatMul(w, ev[e].column - 1))

(* C4: in every state of a run each event created from the input is in
   exactly one place: once in this.events, or once in exactly one column
   list of this.events_calculated. *)
C4_ExactlyOnePlace ==
    \A k \in ids :
        count(events, k)
        + sum([c \in 1..Len(events_calculated) |-> count(events_calculated[c], k)],
              Len(events_calculated)) = 1

(* some events are placed, in two columns at least, and some are not yet *)
C4_Witness ==
    /\ pc = "for"
    /\ Len(events_calculated) >= 2
    /\ events_calculated[1] # <<>>
    /\ events_calculated[2] # <<>>
    /\ events # <<>>

(* C5: a run on a sorted valid input never ends abnormally; when it ends
   the unplaced list is empty, and it never creates more columns than
   there are input events. *)
C5_TerminatesNormally ==
    /\ pc # "error"
    /\ pc = "done" => events = <<>>
    /\ pc \in {"for", "while", "done", "error"} =>
           Len(events_calculated) <= Len(input)

(* C6 as stated: a run whose input holds a record with start >= end places
   nothing: events_calculated and collision_clusters stay empty and the
   run never completes. *)
C6_MalformedRejected ==
    malformed # {} =>
        /\ events_calculated = <<>>
        /\ collision_clusters = <<>>
        /\ pc # "done"

(* C6 as amended: no record is rejected. Every record, start >= end
   included, becomes an event with the record's own start and end, and when
   the run has finished each such event sits in exactly one column list,
   within the container. *)
C6_MalformedPlaced ==
    /\ Len(ev) = Len(input)
    /\ \A k \in 1..Len(input) :
          /\ ev[k].start = input[k].start
          /\ ev[k].end = input[k].end
          /\ pc = "done" =>
                /\ sum([c \in 1..Len(events_calculated) |->
                            count(events_calculated[c], k)],
                       Len(events_calculated)) = 1
                /\ RatLeq(Zero, ev[k].left) /\ RatLeq(right(k), Full)

(* a finished run whose input held a record with start > end *)
C6_Witness ==
    /\ pc = "done"
    /\ \E k \in malformed : input[k].start > input[k].end /\ k \in placed

(* C7: the layout of an empty input completes without error and creates no
   column list and no cluster. *)
C7_EmptyInput ==
    (pc # "new" /\ input = <<>>) =>
        /\ events_calculated = <<>>
        /\ collision_clusters = <<>>
        /\ pc # "error"
        /\ fault = "none"

(* the run on the empty input has finished *)
C7_Witness == pc = "done" /\ input = <<>>

(* C8: for intervals with start < end, a.checkCollision(b) is true exactly
   when a.start < b.end and b.start < a.end; it is symmetric, and false
   when a.end = b.start. *)
C8_CollisionIsOverlap ==
    \A a, b \in ids :
        /\ checkCollision(ev[a], ev[b])
               = (ev[a].start < ev[b].end /\ ev[b].start < ev[a].end)
        /\ checkCollision(ev[a], ev[b]) = checkCollision(ev[b], ev[a])
        /\ ev[a].end = ev[b].start => ~checkCollision(ev[a], ev[b])

(* two touching events were tested against each other and share a column *)
C8_Witness ==
    \E c \in 1..Len(events_calculated) :
        \E a, b \in ids :
            /\ inArray(a, events_calculated[c]) > -1
            /\ inArray(b, events_calculated[c]) > -1
            /\ ev[a].end = ev[b].start

(* C10: after every placement step collision_clusters is a partition of
   the placed events into the connected components of their collision
   graph: every placed event is once in exactly one cluster, and two
   placed events share a cluster exactly when a chain of collisions among
   placed events links them. *)
C10_ClustersArePartition ==
    pc \in {"for", "while", "done"} =>
        /\ \A k \in ids :
              sum([c \in 1..Len(collision_clusters) |->
                      count(collision_clusters[c], k)],
                  Len(collision_clusters))
              = IF k \in placed THEN 1 ELSE 0
        /\ \A a, b \in placed :
              (\E c \in 1..Len(collision_clusters) :
                  /\ inArray(a, collision_clusters[c]) > -1
                  /\ inArray(b, collision_clusters[c]) > -1)
              <=> b \in component(a, placed)

(* the set of the elements of an array *)
range(array) == { array[p] : p \in 1..Len(array) }

(* a step that commits the event of the current for turn *)
placement == pc = "for" /\ Len(events') = Len(events) - 1
placing == events[i + 1]

(* C11: a call determineCollisionClusters(event) with non-empty
   event.collisions leaves the survivor (the first found cluster) holding
   exactly the union of all found clusters plus the event, removes exactly
   the other found clusters, and leaves every cluster that holds none of
   the collisions in place with unchanged membership. *)
C11_MergeEffect ==
    [][ (placement /\ Len(ev'[placing].collisions) # 0) =>
        LET collisions == ev'[placing].collisions
            n == Len(collision_clusters)
            found == { c \in 1..n : \E x \in range(collisions) :
                                       inArray(x, collision_clusters[c]) > -1 }
        IN  found # {} =>
            LET to_merge == removeDuplicates(
                                clustersToMerge(collision_clusters, collisions, 1))
                survivor == to_merge[1] + 1
                expected == [c \in 1..n |->
                                IF c = survivor
                                THEN UNION { range(collision_clusters[d]) : d \in found }
                                     \cup {placing}
                                ELSE range(collision_clusters[c])]
                kept == grep(expected, (1..n) \ (found \ {survivor}), 1)
            IN  kept = [c \in 1..Len(collision_clusters') |->
                           range(collision_clusters'[c])]
      ]_vars

(* C12: the index returned by determineCollisionClusters(event) is, after
   the splices of that call, a valid index of collision_clusters whose
   cluster contains the newly placed event and every one of its direct
   collisions. *)
C12_ReturnedIndexValid ==
    [][ (placement /\ pc' # "error") =>
        IF new_collision_cluster_index' < 0
           \/ new_collision_cluster_index' >= Len(collision_clusters')
        THEN FALSE
        ELSE LET cluster == collision_clusters'[new_collision_cluster_index' + 1]
             IN  /\ placing \in range(cluster)
                 /\ range(ev'[placing].collisions) \subseteq range(cluster)
      ]_vars

(* C13: no internal fault is reachable on a sorted valid input: the column
   list of the current column exists whenever getCollidingEvents is
   called, no TypeError is thrown, and in determineCollisionClusters every
   direct collision of the newly placed event is found in some cluster. *)
C13_NoInternalFault ==
    [][ /\ fault' = "none"
        /\ pc' = "for" => column' <= Len(events_calculated')
        /\ placement =>
              \A x \in range(ev'[placing].collisions) :
                  Len(clustersHolding(collision_clusters, x)) # 0
      ]_vars

(* C14: after every placement step, for every cluster of collision_clusters
   and every member m of it, m.width = 600 / (largest column among the
   members of that cluster) and m.left = m.width * (m.column - 1). *)
C14_ClusterWidths ==
    pc \in {"for", "while", "done"} =>
        \A c \in 1..Len(collision_clusters) :
            \A m \in range(collision_clusters[c]) :
                LET w == RatDiv(Full, maxColumn(range(collision_clusters[c])))
                IN  /\ RatEq(ev[m].width, w)
                    /\ RatEq(ev[m].left, RatMul(w, ev[m].column - 1))

(* the order sortEvents gives to the events of the input *)
sortedEvents == sort(ev, [k \in 1..Len(ev) |-> k])
columnListOf(k) == CHOOSE c \in 1..Len(events_calculated) :
                       inArray(k, events_calculated[c]) > -1
running == pc \in {"for", "while", "done", "error"}

(* C15: in every state of calculateEventPositions no two distinct events
   of one column list collide in time, and every event of the list
   events_calculated[c-1] has column = c. *)
C15_ColumnsCollisionFree ==
    running =>
        \A c \in 1..Len(events_calculated) :
            \A a, b \in range(events_calculated[c]) :
                /\ ev[a].column = c
                /\ a # b => ~checkCollision(ev[a], ev[b])

(* a column holds two events while a later column exists *)
C15_Witness ==
    /\ running
    /\ Len(events_calculated) >= 2
    /\ Len(events_calculated[1]) >= 2
    /\ events_calculated[2] # <<>>

(* C16: an event committed to column c collides, for every column k in
   1..c-1, with at least one event of column k that precedes it in the
   sorted order, and it collides with no other event of column c. *)
C16_FirstFit ==
    running =>
        LET order == sortedEvents
            position == [k \in ids |-> inArray(k, order)]
        IN  \A c \in 1..Len(events_calculated) :
                \A e \in range(events_calculated[c]) :
                    /\ \A k \in 1..(c - 1) :
                          \E x \in range(events_calculated[k]) :
                              /\ position[x] < position[e]
                              /\ checkCollision(ev[e], ev[x])
                    /\ \A x \in range(events_calculated[c]) \ {e} :
                          ~checkCollision(ev[e], ev[x])

(* an event sits in a third column, next to another event of that column *)
C16_Witness ==
    /\ running
    /\ Len(events_calculated) >= 3
    /\ Len(events_calculated[3]) >= 2

(* C17: once an event has been committed to a column it stays in that
   column list and keeps its column, start and end in every later step. *)
C17_ColumnFixed ==
    [][ \A c \in 1..Len(events_calculated) :
            \A k \in range(events_calculated[c]) :
                /\ c <= Len(events_calculated')
                /\ inArray(k, events_calculated'[c]) > -1
                /\ ev'[k].column = ev[k].column
                /\ ev'[k].start = ev[k].start
                /\ ev'[k].end = ev[k].end
      ]_vars

(* an event of column 1 has been resized by a later placement *)
C17_Witness ==
    /\ running
    /\ Len(events_calculated) >= 2
    /\ \E k \in range(events_calculated[1]) :
          ev[k].column = 1 /\ ev[k].width.d > 1

(* C18: from its commit on, event.collisions holds, each exactly once,
   precisely the events of lower columns that collide with the event; it
   is empty exactly when the event is in column 1 (or not yet placed). *)
C18_DirectCollisions ==
    running =>
        /\ \A e \in range(events) : ev[e].collisions = <<>>
        /\ \A c \in 1..Len(events_calculated) :
              \A e \in range(events_calculated[c]) :
                  LET lower == { x \in UNION { range(events_calculated[k]) :
                                                  k \in 1..(c - 1) } :
                                    checkCollision(ev[e], ev[x]) }
                  IN  /\ range(ev[e].collisions) = lower
                      /\ Len(ev[e].collisions) = Cardinality(lower)
                      /\ (Len(ev[e].collisions) = 0) <=> (c = 1)

(* an event of column 3 or later has collisions in two lower columns *)
C18_Witness ==
    /\ running
    /\ \E e \in placed :
          /\ columnListOf(e) >= 3
          /\ \E x, y \in range(ev[e].collisions) :
                columnListOf(x) = 1 /\ columnListOf(y) = 2

(* the largest number of the events evs that overlap at one instant; an
   overlap of intervals always includes the start of one of them *)
maxOverlap(evs) ==
    LET at(t) == Cardinality({ x \in DOMAIN evs :
                                  evs[x].start <= t /\ t < evs[x].end })
        counts == { at(evs[k].start) : k \in DOMAIN evs } \cup {0}
    IN  CHOOSE m \in counts : \A n \in counts : n <= m

(* the arrays of at most MaxEvents valid records *)
SmallInputs == UNION { [1..n -> Records] : n \in 0..MaxEvents }
eventsOf(recs) == [k \in 1..Len(recs) |-> Event(recs[k])]
idsOf(recs) == [k \in 1..Len(recs) |-> k]

(* C19 as stated: among the arrays layOutDay can be handed there is one
   on which, once sorted, the number of columns used by
   calculateEventPositions exceeds the largest number of input events that
   overlap at one instant. *)
C19_SomeInputSuboptimal ==
    (pc = "new" /\ input = <<>>) =>
        \E recs \in SmallInputs :
            LET evs == eventsOf(recs)
            IN  columnsUsed(evs, sort(evs, idsOf(recs)), 0) > maxOverlap(evs)

(* C19 as amended: on every sorted input of valid intervals the greedy
   assignment is minimum-column: no event is committed to a column beyond
   the number of events that overlap at its start, and a finished run has
   used exactly as many columns as events overlap at one instant. *)
C19_GreedyIsMinimal ==
    running =>
        /\ \A c \in 1..Len(events_calculated) :
              \A e \in range(events_calculated[c]) :
                  c <= Cardinality({ x \in ids : /\ ev[x].start <= ev[e].start
                                                 /\ ev[e].start < ev[x].end })
        /\ pc = "done" =>
              /\ Len(events_calculated) = maxOverlap(ev)
              /\ Len(events_calculated) = columnsUsed(ev, sortedEvents, 0)

(* a finished run with three columns or more and fewer columns than events *)
C19_Witness ==
    /\ pc = "done"
    /\ Len(events_calculated) >= 3
    /\ Len(events_calculated) < Len(input)
    /\ Len(events_calculated[2]) >= 2

(* C20: after sortEvents this.events is a permutation of the events it
   held before, ascending by start with ties broken by end ascending; the
   comparator is antisymmetric and returns 0 only for equal (start, end). *)
C20_Sorted ==
    pc = "sorted" =>
        /\ Len(events) = Len(input)
        /\ \A k \in ids : count(events, k) = 1
        /\ \A p \in 1..(Len(events) - 1) :
              LET a == ev[events[p]]
                  b == ev[events[p + 1]]
              IN  a.start < b.start \/ (a.start = b.start /\ a.end <= b.end)
        /\ \A a, b \in ids :
              /\ sortCompare(ev[a], ev[b]) = 0 - sortCompare(ev[b], ev[a])
              /\ (sortCompare(ev[a], ev[b]) = 0)
                    <=> (ev[a].start = ev[b].start /\ ev[a].end = ev[b].end)

(* sortEvents has reordered an input whose events tie on start *)
C20_Witness ==
    /\ pc = "sorted"
    /\ events # idsOf(input)
    /\ \E p \in 1..(Len(events) - 1) :
          /\ ev[events[p]].start = ev[events[p + 1]].start
          /\ ev[events[p]].end < ev[events[p + 1]].end
          /\ events[p] > events[p + 1]

====
